---- MODULE Spec2Model ----
(***************************************************************************)
(* Model of the deduplicating multi-tenant file store: FileSystemService   *)
(* over PostgresRepository (fs_nodes, blobs) and LocalBlobStorage, with    *)
(* OrphanCleanupService and the tenant middleware.                         *)
(*                                                                         *)
(* A service method is modelled as a step function on a configuration      *)
(* c = [db, f]: db is the durable state (the two tables, the blob files,   *)
(* the repository's currentTenantId, the wall clock), f is the frame of    *)
(* one request (arguments, locals, position pc, result).  One step runs    *)
(* the store call the method is suspended at and the synchronous code up   *)
(* to the next await.  Spec runs each request to completion in one action  *)
(* (requests one at a time); SpecPar lets the steps of two requests        *)
(* interleave at the awaits.                                               *)
(***************************************************************************)
EXTENDS Integers, Sequences, FiniteSets, TLC

VARIABLES
    tenants,          \* tenants table: ids of registered tenants
    fs_nodes,         \* fs_nodes table: set of rows
    blobs,            \* blobs table: set of rows (reference counts)
    blobStore,        \* LocalBlobStorage: set of [hash, content] files
    currentTenantId,  \* PostgresRepository.currentTenantId
    now,              \* wall clock read by new Date() and NOW()
    reqs,             \* request slot -> frame of the request it serves
    nops,             \* number of requests started so far
    hist              \* history: the writeFile-only prefix of the run

vars == <<tenants, fs_nodes, blobs, blobStore, currentTenantId, now, reqs, nops, hist>>

----------------------------------------------------------------------------
(* Bounds of the exploration *)

\* requests served plus clock ticks, one at a time
MaxOps == 3
\* clock ticks
MaxClock == 1
\* requests started in parallel runs
MaxParOps == 2
\* the largest total cleanupInBatches counts up to
MaxTotalDeleted == 2

Tenants == {"T1", "T2"}
Paths == {<<"/">>, <<"/", "a">>, <<"/", "b">>, <<"/", "a", "/", "b">>}
Buffers == {<<>>, <<104, 105>>}
Slots == {1, 2}

NoTenant == "null"
NoNode == [type |-> "null"]
OCTET_STREAM == "application/octet-stream"

----------------------------------------------------------------------------
(* Strings as sequences of characters *)

StartsWith(s, p) == Len(p) <= Len(s) /\ SubSeq(s, 1, Len(p)) = p

Includes(s, p) == \E i \in 1..(Len(s) - Len(p) + 1) : SubSeq(s, i, i + Len(p) - 1) = p

\* 1-based position of the last occurrence of ch, 0 when there is none
\* (String.prototype.lastIndexOf is 0-based with -1 for none)
LastIndexOf(s, ch) ==
    LET at == {i \in 1..Len(s) : s[i] = ch}
    IN  IF at = {} THEN 0 ELSE CHOOSE i \in at : \A j \in at : j <= i

CountChar(s, ch) == Cardinality({i \in 1..Len(s) : s[i] = ch})

CharCode(ch) ==
    CASE ch = "/" -> 47
      [] ch = "." -> 46
      [] ch = "a" -> 97
      [] ch = "b" -> 98
      [] ch = "_" -> 95
      [] ch = "%" -> 37
      [] OTHER -> 0

RECURSIVE StrLess(_, _)
StrLess(s, t) ==
    IF t = <<>> THEN FALSE
    ELSE IF s = <<>> THEN TRUE
    ELSE IF CharCode(Head(s)) # CharCode(Head(t)) THEN CharCode(Head(s)) < CharCode(Head(t))
    ELSE StrLess(Tail(s), Tail(t))

\* SQL LIKE: in the pattern "%" matches any run of characters, "_" any one
\* character, every other character itself
RECURSIVE Like(_, _)
Like(s, pattern) ==
    IF pattern = <<>> THEN s = <<>>
    ELSE IF Head(pattern) = "%"
         THEN \E k \in 0..Len(s) : Like(SubSeq(s, k + 1, Len(s)), Tail(pattern))
         ELSE /\ s # <<>>
              /\ (Head(pattern) = "_" \/ Head(pattern) = Head(s))
              /\ Like(Tail(s), Tail(pattern))

----------------------------------------------------------------------------
(* Value objects and entities *)

\* new FilePath(path): the object holds the string
FilePath(path) == [value |-> path]

toString(fp) == fp.value

equals(fp, other) == fp.value = other.value

\* Faulty variant of FilePath.create: no check for NUL bytes
FilePath_create_NulAccepted(path) ==
    /\ StartsWith(path, <<"/">>)
    /\ ~Includes(path, <<".", ".">>)

\* FilePath.create: TRUE iff the path is accepted
FilePath_create(path) ==
    /\ StartsWith(path, <<"/">>)
    /\ ~Includes(path, <<".", ".">>)
    /\ ~Includes(path, <<"NUL">>)

\* path.substring(0, path.lastIndexOf("/")) || "/"
ParentPath(path) ==
    LET cut == SubSeq(path, 1, LastIndexOf(path, "/") - 1)
    IN  IF cut = <<>> THEN <<"/">> ELSE cut

\* ContentHash.fromContent: SHA-256 as an injective digest of the bytes
RECURSIVE Sha256(_)
Sha256(content) ==
    IF content = <<>> THEN 1
    ELSE Sha256(SubSeq(content, 1, Len(content) - 1)) * 257 + content[Len(content)] + 1

Hashes == {Sha256(b) : b \in Buffers}

\* mime.lookup(path) || "application/octet-stream": a path whose last component
\* has no extension has no type in the table
MimeLookup(path) ==
    IF LastIndexOf(path, ".") <= LastIndexOf(path, "/") + 1
    THEN OCTET_STREAM
    ELSE "by-extension"

\* new FileNode(path, contentHash, size, mimeType) at time t
FileNode(path, contentHash, size, mimeType, t) ==
    [type |-> "file", path |-> path, content_hash |-> contentHash, size |-> size,
     mime_type |-> mimeType, created_at |-> t, modified_at |-> t]

\* new DirectoryNode(path) at time t
DirectoryNode(path, t) ==
    [type |-> "directory", path |-> path, created_at |-> t, modified_at |-> t]

\* Faulty variant of updateContent: the node keeps its modification time
updateContent_KeepsModifiedAt(node, newHash, newSize, t) ==
    [node EXCEPT !.content_hash = newHash, !.size = newSize]

\* FileNode.updateContent(newHash, newSize) at time t
updateContent(node, newHash, newSize, t) ==
    [node EXCEPT !.content_hash = newHash, !.size = newSize, !.modified_at = t]

----------------------------------------------------------------------------
(* PostgresRepository: statements against fs_nodes and blobs.              *)
(* A row of fs_nodes is the entity plus tenant_id; an entity read back     *)
(* keeps the tenant_id of its row.                                         *)

Row(tenantId, node) ==
    IF node.type = "file"
    THEN [tenant_id |-> tenantId, type |-> "file", path |-> node.path,
          content_hash |-> node.content_hash, size |-> node.size,
          mime_type |-> node.mime_type, created_at |-> node.created_at,
          modified_at |-> node.modified_at]
    ELSE [tenant_id |-> tenantId, type |-> "directory", path |-> node.path,
          created_at |-> node.created_at, modified_at |-> node.modified_at]

\* ensureTenant: FALSE when it throws "Tenant not set"
ensureTenant(db) == db.currentTenantId # NoTenant

\* Faulty variant of getNodeByPath: SELECT without the tenant_id condition
getNodeByPath_AnyTenant(db, path) ==
    LET rows == {n \in db.fs_nodes : n.path = path}
    IN  IF rows = {} THEN NoNode ELSE CHOOSE n \in rows : TRUE

\* Faulty variant of getNodeByPath: SELECT ... AND type = 'file'
getNodeByPath_FilesOnly(db, path) ==
    LET rows == {n \in db.fs_nodes :
                    n.tenant_id = db.currentTenantId /\ n.path = path /\ n.type = "file"}
    IN  IF rows = {} THEN NoNode ELSE CHOOSE n \in rows : TRUE

\* GET_NODE_BY_PATH; rows[0] or null
getNodeByPath(db, path) ==
    LET rows == {n \in db.fs_nodes : n.tenant_id = db.currentTenantId /\ n.path = path}
    IN  IF rows = {} THEN NoNode ELSE CHOOSE n \in rows : TRUE

\* INSERT_FILE_NODE / INSERT_DIRECTORY_NODE under UNIQUE (tenant_id, path) and
\* the foreign key to tenants: [err, db]
createNode(db, node) ==
    LET t == db.currentTenantId
    IN  IF \/ t \notin db.tenants
           \/ \E n \in db.fs_nodes : n.tenant_id = t /\ n.path = node.path
        THEN [err |-> TRUE, db |-> db]
        ELSE [err |-> FALSE, db |-> [db EXCEPT !.fs_nodes = @ \cup {Row(t, node)}]]

\* Faulty variant of updateNode: only modified_at is written, as for a directory
updateNode_OnlyModifiedAt(db, node) ==
    [db EXCEPT !.fs_nodes =
        {IF n.tenant_id = db.currentTenantId /\ n.path = node.path
         THEN [n EXCEPT !.modified_at = node.modified_at]
         ELSE n : n \in @}]

\* UPDATE_FILE_NODE / UPDATE_DIRECTORY_NODE: no row matched, nothing changes
updateNode(db, node) ==
    LET t == db.currentTenantId
        upd(n) ==
            IF n.tenant_id = t /\ n.path = node.path
            THEN IF node.type = "file"
                 THEN [n EXCEPT !.content_hash = node.content_hash, !.size = node.size,
                                !.mime_type = node.mime_type,
                                !.modified_at = node.modified_at]
                 ELSE [n EXCEPT !.modified_at = node.modified_at]
            ELSE n
    IN  [db EXCEPT !.fs_nodes = {upd(n) : n \in @}]

\* Faulty variant of deleteNode: DELETE ... WHERE path LIKE $2 || '%'
deleteNode_Prefix(db, path) ==
    [db EXCEPT !.fs_nodes =
        {n \in @ : ~(/\ n.tenant_id = db.currentTenantId
                     /\ Len(n.path) >= Len(path)
                     /\ SubSeq(n.path, 1, Len(path)) = path)}]

\* Faulty variant of deleteNode: no row is deleted
deleteNode_Keeps(db, path) == db

\* Faulty variant of deleteNode: DELETE without the tenant_id condition
deleteNode_AnyTenant(db, path) ==
    [db EXCEPT !.fs_nodes = {n \in @ : n.path # path}]

\* DELETE_NODE
deleteNode(db, path) ==
    [db EXCEPT !.fs_nodes =
        {n \in @ : ~(n.tenant_id = db.currentTenantId /\ n.path = path)}]

\* ORDER BY type DESC, path ASC
RowBefore(m, n) ==
    IF m.type # n.type THEN m.type = "file" ELSE StrLess(m.path, n.path)

RECURSIVE SortRows(_)
SortRows(rows) ==
    IF rows = {} THEN <<>>
    ELSE LET first == CHOOSE m \in rows : \A n \in rows \ {m} : RowBefore(m, n)
         IN  <<first>> \o SortRows(rows \ {first})

\* LIST_CHILDREN: path LIKE pattern, path != dir, slash count = depth
listChildren(db, directoryPath) ==
    LET pattern == IF directoryPath = <<"/">> THEN <<"/", "%">>
                   ELSE directoryPath \o <<"/", "%">>
        depth == IF directoryPath = <<"/">> THEN 1 ELSE CountChar(directoryPath, "/") + 1
    IN  SortRows({n \in db.fs_nodes :
                    /\ n.tenant_id = db.currentTenantId
                    /\ Like(n.path, pattern)
                    /\ n.path # directoryPath
                    /\ CountChar(n.path, "/") = depth})

BlobRow(db, contentHash) == {b \in db.blobs : b.content_hash = contentHash}

\* Faulty variant of incrementBlobRefCount: ON CONFLICT DO NOTHING
incrementBlobRefCount_DoNothing(db, contentHash) ==
    IF {b \in db.blobs : b.content_hash = contentHash} # {}
    THEN db
    ELSE [db EXCEPT !.blobs = @ \cup
            {[content_hash |-> contentHash, reference_count |-> 1, size |-> 0,
              created_at |-> db.now, last_accessed_at |-> db.now]}]

\* INCREMENT_BLOB_REF: INSERT ... ON CONFLICT DO UPDATE reference_count + 1
incrementBlobRefCount(db, contentHash) ==
    IF BlobRow(db, contentHash) = {}
    THEN [db EXCEPT !.blobs = @ \cup
            {[content_hash |-> contentHash, reference_count |-> 1, size |-> 0,
              created_at |-> db.now, last_accessed_at |-> db.now]}]
    ELSE [db EXCEPT !.blobs =
            {IF b.content_hash = contentHash
             THEN [b EXCEPT !.reference_count = @ + 1, !.last_accessed_at = db.now]
             ELSE b : b \in @}]

\* Faulty variant of decrementBlobRefCount: returns the count before the update
decrementBlobRefCount_ReturnsOld(db, contentHash) ==
    LET rows == {b \in db.blobs : b.content_hash = contentHash}
    IN  IF rows = {}
        THEN [err |-> FALSE, count |-> 0, db |-> db]
        ELSE LET row == CHOOSE b \in rows : TRUE
             IN  IF row.reference_count - 1 < 0
                 THEN [err |-> TRUE, count |-> 0, db |-> db]
                 ELSE [err |-> FALSE, count |-> row.reference_count,
                       db |-> [db EXCEPT !.blobs =
                                {IF b.content_hash = contentHash
                                 THEN [b EXCEPT !.reference_count = @ - 1,
                                                !.last_accessed_at = db.now]
                                 ELSE b : b \in @}]]

\* Faulty variant of decrementBlobRefCount: no CHECK (reference_count >= 0)
decrementBlobRefCount_NoCheck(db, contentHash) ==
    LET rows == {b \in db.blobs : b.content_hash = contentHash}
    IN  IF rows = {}
        THEN [err |-> FALSE, count |-> 0, db |-> db]
        ELSE [err |-> FALSE, count |-> (CHOOSE b \in rows : TRUE).reference_count - 1,
              db |-> [db EXCEPT !.blobs =
                       {IF b.content_hash = contentHash
                        THEN [b EXCEPT !.reference_count = @ - 1,
                                       !.last_accessed_at = db.now]
                        ELSE b : b \in @}]]

\* DECREMENT_BLOB_REF in a transaction: [err, count, db].  No row: returns 0.
\* CHECK (reference_count >= 0) violated: the statement fails, ROLLBACK, rethrow.
decrementBlobRefCount(db, contentHash) ==
    IF BlobRow(db, contentHash) = {}
    THEN [err |-> FALSE, count |-> 0, db |-> db]
    ELSE LET row == CHOOSE b \in BlobRow(db, contentHash) : TRUE
         IN  IF row.reference_count - 1 < 0
             THEN [err |-> TRUE, count |-> 0, db |-> db]
             ELSE [err |-> FALSE, count |-> row.reference_count - 1,
                   db |-> [db EXCEPT !.blobs =
                            {IF b.content_hash = contentHash
                             THEN [b EXCEPT !.reference_count = @ - 1,
                                            !.last_accessed_at = db.now]
                             ELSE b : b \in @}]]

OrphanBatchLimit == 1000

\* the largest content_hash of the rows
HashRange(rows) ==
    LET hashes == {b.content_hash : b \in rows}
    IN  CHOOSE m \in hashes : \A n \in hashes : n <= m

\* rows of one last_accessed_at, their hashes within lo..hi, by content_hash
\* (the primary key of blobs): the lower half of the range, then the upper
RECURSIVE SortByHash(_, _, _)
SortByHash(rows, lo, hi) ==
    IF rows = {} THEN <<>>
    ELSE IF lo = hi THEN <<lo>>
    ELSE LET mid == (lo + hi) \div 2
         IN  SortByHash({b \in rows : b.content_hash <= mid}, lo, mid)
                \o SortByHash({b \in rows : b.content_hash > mid}, mid + 1, hi)

\* ORDER BY last_accessed_at ASC: the hashes of the oldest rows first, rows of
\* one last_accessed_at by content_hash
RECURSIVE SortOrphans(_)
SortOrphans(rows) ==
    IF rows = {} THEN <<>>
    ELSE LET times == {b.last_accessed_at : b \in rows}
             first == CHOOSE t \in times : \A u \in times : t <= u
             oldest == {b \in rows : b.last_accessed_at = first}
         IN  SortByHash(oldest, 0, HashRange(oldest)) \o SortOrphans(rows \ oldest)

\* Faulty variant of getOrphanBlobs: reference_count <= 1
getOrphanBlobs_CountAtMostOne(db) ==
    LET all == SortOrphans({b \in db.blobs : b.reference_count <= 1})
    IN  SubSeq(all, 1, IF Len(all) < OrphanBatchLimit THEN Len(all) ELSE OrphanBatchLimit)

\* GET_ORPHAN_BLOBS: reference_count = 0 ORDER BY last_accessed_at LIMIT 1000
getOrphanBlobs(db) ==
    LET all == SortOrphans({b \in db.blobs : b.reference_count = 0})
    IN  SubSeq(all, 1, IF Len(all) < OrphanBatchLimit THEN Len(all) ELSE OrphanBatchLimit)

----------------------------------------------------------------------------
(* LocalBlobStorage: one file per hash under the sharded directory *)

BlobFiles(store, contentHash) == {b \in store : b.hash = contentHash}

\* Faulty variant of exists: fs.access always fails
BlobExists_Never(store, contentHash) == FALSE

\* Faulty variant of exists: always true
BlobExists_Always(store, contentHash) == TRUE

\* exists: fs.access succeeds
BlobExists(store, contentHash) == BlobFiles(store, contentHash) # {}

\* Faulty variant of write: the file is not written
BlobWrite_Lost(store, contentHash, content) == store

\* write: fs.writeFile replaces the file at the hash's path
BlobWrite(store, contentHash, content) ==
    (store \ BlobFiles(store, contentHash)) \cup {[hash |-> contentHash, content |-> content]}

\* Faulty variant of read: an empty buffer
BlobRead_Empty(store, contentHash) == <<>>

\* read: the file's bytes (the caller has checked BlobExists; ENOENT otherwise)
BlobRead(store, contentHash) == (CHOOSE b \in BlobFiles(store, contentHash) : TRUE).content

\* Faulty variant of delete: the file stays
BlobDelete_Keeps(store, contentHash) == store

\* delete: fs.unlink, ENOENT ignored
BlobDelete(store, contentHash) == store \ BlobFiles(store, contentHash)

\* fs.unlink of an existing blob file fails with an error other than ENOENT
\* (EACCES, EPERM, EIO) for the hashes in faults: delete rethrows it
UnlinkFails(store, contentHash, faults) ==
    contentHash \in faults /\ BlobExists(store, contentHash)

\* Faulty variant of BlobDeleteMany: no file is unlinked
BlobDeleteMany_Keeps(store, contentHashes, faults) == [err |-> FALSE, store |-> store]

\* deleteMany: Promise.all of delete. Every unlink is issued, the file of every
\* hash whose unlink succeeds is gone, and the call rejects when one unlink fails.
BlobDeleteMany(store, contentHashes, faults) ==
    LET asked == {contentHashes[i] : i \in 1..Len(contentHashes)}
        failed == {h \in asked : UnlinkFails(store, h, faults)}
    IN  [err |-> failed # {},
         store |-> {b \in store : b.hash \notin asked \ failed}]

----------------------------------------------------------------------------
(* Frames: one request of the service *)

Void == [kind |-> "void"]

NewFrame(tenant, op, src, dst, content) ==
    [tenant |-> tenant, op |-> op, src |-> src, dst |-> dst, content |-> content,
     pc |-> "start", result |-> "pending", ret |-> Void,
     path |-> src, buf |-> content, hashString |-> 0, oldHash |-> 0,
     node |-> NoNode, orphans |-> <<>>, calls |-> <<>>,
     faults |-> {}, batchSize |-> 0, totalDeleted |-> 0]

IdleFrame == [NewFrame(NoTenant, "none", <<>>, <<>>, <<>>) EXCEPT !.pc = "idle"]

\* Faulty variant of Throw: moveFile goes on to deleteFile(source) although
\* the writeFile of its copyFile has thrown
Throw_MoveGoesOn(c, error) ==
    IF c.f.op = "moveFile" /\ c.f.pc \in {"wf_get", "wf_parent"}
    THEN [c EXCEPT !.f.path = c.f.src, !.f.pc = "df_get"]
    ELSE [c EXCEPT !.f.pc = "done", !.f.result = error]

Throw(c, error) == [c EXCEPT !.f.pc = "done", !.f.result = error]

Goto(c, label) == [c EXCEPT !.f.pc = label]

\* the store call the frame makes: which method, under which tenant, on which hash
Log(c, fn, tenant, hash) ==
    [c EXCEPT !.f.calls = Append(@, [fn |-> fn, tenant |-> tenant, hash |-> hash])]

LogRepo(c, fn) == Log(c, fn, c.db.currentTenantId, 0)

LogBlob(c, fn, hash) == Log(c, fn, "-", hash)

----------------------------------------------------------------------------
(* FileSystemService *)

\* writeFile up to its first await: FilePath.create, ContentHash.fromContent
writeFile_begin(c, path, content) ==
    IF ~FilePath_create(path) THEN Throw(c, "Error")
    ELSE [c EXCEPT !.f.path = path, !.f.buf = content,
                   !.f.hashString = Sha256(content), !.f.pc = "wf_exists"]

\* readFile and deleteFile make their first store call at once
readFile_begin(c, path) == [c EXCEPT !.f.path = path, !.f.pc = "rf_get"]

deleteFile_begin(c, path) == [c EXCEPT !.f.path = path, !.f.pc = "df_get"]

\* Faulty variant of Return: moveFile ends after its copyFile
Return_MoveIsCopy(c, method, ret) ==
    IF c.f.op \in {"copyFile", "moveFile"} /\ method = "readFile"
    THEN writeFile_begin(c, c.f.dst, ret.value)
    ELSE [c EXCEPT !.f.pc = "done", !.f.result = "ok", !.f.ret = ret]

\* A method returns: copyFile goes on from readFile to writeFile, moveFile from
\* copyFile to deleteFile; otherwise the request is over.
Return(c, method, ret) ==
    IF c.f.op \in {"copyFile", "moveFile"} /\ method = "readFile"
    THEN writeFile_begin(c, c.f.dst, ret.value)
    ELSE IF c.f.op = "moveFile" /\ method = "writeFile"
    THEN deleteFile_begin(c, c.f.src)
    ELSE [c EXCEPT !.f.pc = "done", !.f.result = "ok", !.f.ret = ret]

createDirectory(c) ==
    LET db == c.db
        f == c.f
    IN  CASE f.pc = "cd_get" ->
               LET existing == getNodeByPath(db, f.path)
                   c1 == LogRepo(c, "getNodeByPath")
               IN  IF existing # NoNode THEN Throw(c1, "FileAlreadyExistsError")
                   ELSE IF f.path # <<"/">> THEN Goto(c1, "cd_parent")
                   ELSE [c1 EXCEPT !.f.node = DirectoryNode(f.path, db.now),
                                   !.f.pc = "cd_create"]
          [] f.pc = "cd_parent" ->
               LET parent == getNodeByPath(db, ParentPath(f.path))
                   c1 == LogRepo(c, "getNodeByPath")
               IN  IF parent = NoNode THEN Throw(c1, "DirectoryNotFoundError")
                   ELSE [c1 EXCEPT !.f.node = DirectoryNode(f.path, db.now),
                                   !.f.pc = "cd_create"]
          [] f.pc = "cd_create" ->
               LET r == createNode(db, f.node)
                   c1 == LogRepo(c, "createNode")
               IN  IF r.err THEN Throw(c1, "Error")
                   ELSE Return([c1 EXCEPT !.db = r.db], "createDirectory", Void)

writeFile(c) ==
    LET db == c.db
        f == c.f
    IN  CASE f.pc = "wf_exists" ->
               LET c1 == LogBlob(c, "blob.exists", f.hashString)
               IN  IF ~BlobExists(db.blobStore, f.hashString)
                   THEN Goto(c1, "wf_write") ELSE Goto(c1, "wf_get")
          [] f.pc = "wf_write" ->
               LET c1 == LogBlob(c, "blob.write", f.hashString)
               IN  [c1 EXCEPT !.db.blobStore = BlobWrite(@, f.hashString, f.buf),
                              !.f.pc = "wf_get"]
          [] f.pc = "wf_get" ->
               LET existing == getNodeByPath(db, f.path)
                   c1 == LogRepo(c, "getNodeByPath")
               IN  IF existing.type = "file"
                   THEN [c1 EXCEPT !.f.oldHash = existing.content_hash,
                                   !.f.node = updateContent(existing, f.hashString,
                                                            Len(f.buf), db.now),
                                   !.f.pc = "wf_update"]
                   ELSE IF existing.type = "directory"
                   THEN Throw(c1, "FileAlreadyExistsError")
                   ELSE Goto(c1, "wf_parent")
          [] f.pc = "wf_update" ->
               LET c1 == LogRepo(c, "updateNode")
               IN  [c1 EXCEPT !.db = updateNode(db, f.node), !.f.pc = "wf_inc"]
          [] f.pc = "wf_inc" ->
               LET c1 == LogBlob(c, "incrementBlobRefCount", f.hashString)
               IN  [c1 EXCEPT !.db = incrementBlobRefCount(db, f.hashString),
                              !.f.pc = "wf_dec"]
          [] f.pc = "wf_dec" ->
               LET r == decrementBlobRefCount(db, f.oldHash)
                   c1 == LogBlob(c, "decrementBlobRefCount", f.oldHash)
               IN  IF r.err THEN Throw(c1, "Error")
                   ELSE IF r.count = 0 THEN [c1 EXCEPT !.db = r.db, !.f.pc = "wf_del"]
                   ELSE Return([c1 EXCEPT !.db = r.db], "writeFile", Void)
          [] f.pc = "wf_del" ->
               LET c1 == LogBlob(c, "blob.delete", f.oldHash)
               IN  Return([c1 EXCEPT !.db.blobStore = BlobDelete(@, f.oldHash)],
                          "writeFile", Void)
          [] f.pc = "wf_parent" ->
               LET parent == getNodeByPath(db, ParentPath(f.path))
                   c1 == LogRepo(c, "getNodeByPath")
               IN  IF parent = NoNode THEN Throw(c1, "DirectoryNotFoundError")
                   ELSE [c1 EXCEPT !.f.node = FileNode(f.path, f.hashString, Len(f.buf),
                                                       MimeLookup(f.path), db.now),
                                   !.f.pc = "wf_create"]
          [] f.pc = "wf_create" ->
               LET r == createNode(db, f.node)
                   c1 == LogRepo(c, "createNode")
               IN  IF r.err THEN Throw(c1, "Error")
                   ELSE [c1 EXCEPT !.db = r.db, !.f.pc = "wf_incnew"]
          [] f.pc = "wf_incnew" ->
               LET c1 == LogBlob(c, "incrementBlobRefCount", f.hashString)
               IN  Return([c1 EXCEPT !.db = incrementBlobRefCount(db, f.hashString)],
                          "writeFile", Void)

readFile(c) ==
    LET db == c.db
        f == c.f
    IN  CASE f.pc = "rf_get" ->
               LET node == getNodeByPath(db, f.path)
                   c1 == LogRepo(c, "getNodeByPath")
               IN  IF node = NoNode THEN Throw(c1, "FileNotFoundError")
                   ELSE IF node.type = "directory" THEN Throw(c1, "FileNotFoundError")
                   ELSE [c1 EXCEPT !.f.node = node, !.f.pc = "rf_read"]
          [] f.pc = "rf_read" ->
               LET c1 == LogBlob(c, "blob.read", f.node.content_hash)
               IN  IF ~BlobExists(db.blobStore, f.node.content_hash)
                   THEN Throw(c1, "Error")
                   ELSE Return(c1, "readFile",
                               [kind |-> "buffer",
                                value |-> BlobRead(db.blobStore, f.node.content_hash)])

deleteFile(c) ==
    LET db == c.db
        f == c.f
    IN  CASE f.pc = "df_get" ->
               LET node == getNodeByPath(db, f.path)
                   c1 == LogRepo(c, "getNodeByPath")
               IN  IF node = NoNode THEN Throw(c1, "FileNotFoundError")
                   ELSE IF node.type = "directory" THEN Throw(c1, "FileNotFoundError")
                   ELSE [c1 EXCEPT !.f.node = node, !.f.pc = "df_delnode"]
          [] f.pc = "df_delnode" ->
               LET c1 == LogRepo(c, "deleteNode")
               IN  [c1 EXCEPT !.db = deleteNode(db, f.path), !.f.pc = "df_dec"]
          [] f.pc = "df_dec" ->
               LET r == decrementBlobRefCount(db, f.node.content_hash)
                   c1 == LogBlob(c, "decrementBlobRefCount", f.node.content_hash)
               IN  IF r.err THEN Throw(c1, "Error")
                   ELSE IF r.count = 0 THEN [c1 EXCEPT !.db = r.db, !.f.pc = "df_delblob"]
                   ELSE Return([c1 EXCEPT !.db = r.db], "deleteFile", Void)
          [] f.pc = "df_delblob" ->
               LET c1 == LogBlob(c, "blob.delete", f.node.content_hash)
               IN  Return([c1 EXCEPT !.db.blobStore = BlobDelete(@, f.node.content_hash)],
                          "deleteFile", Void)

deleteDirectory(c) ==
    LET db == c.db
        f == c.f
    IN  CASE f.pc = "dd_get" ->
               LET node == getNodeByPath(db, f.path)
                   c1 == LogRepo(c, "getNodeByPath")
               IN  IF node = NoNode THEN Throw(c1, "DirectoryNotFoundError")
                   ELSE IF node.type = "file" THEN Throw(c1, "DirectoryNotFoundError")
                   ELSE Goto(c1, "dd_list")
          [] f.pc = "dd_list" ->
               LET children == listChildren(db, f.path)
                   c1 == LogRepo(c, "listChildren")
               IN  IF Len(children) > 0 THEN Throw(c1, "DirectoryNotEmptyError")
                   ELSE Goto(c1, "dd_delnode")
          [] f.pc = "dd_delnode" ->
               LET c1 == LogRepo(c, "deleteNode")
               IN  Return([c1 EXCEPT !.db = deleteNode(db, f.path)], "deleteDirectory", Void)

listDirectory(c) ==
    LET db == c.db
        f == c.f
    IN  CASE f.pc = "ld_get" ->
               LET node == getNodeByPath(db, f.path)
                   c1 == LogRepo(c, "getNodeByPath")
               IN  IF node = NoNode THEN Throw(c1, "DirectoryNotFoundError")
                   ELSE IF node.type = "file" THEN Throw(c1, "DirectoryNotFoundError")
                   ELSE Goto(c1, "ld_list")
          [] f.pc = "ld_list" ->
               Return(LogRepo(c, "listChildren"), "listDirectory",
                      [kind |-> "nodes", value |-> listChildren(db, f.path)])

getInfo(c) ==
    LET node == getNodeByPath(c.db, c.f.path)
        c1 == LogRepo(c, "getNodeByPath")
    IN  IF node = NoNode THEN Throw(c1, "FileNotFoundError")
        ELSE Return(c1, "getInfo", [kind |-> "node", value |-> node])

----------------------------------------------------------------------------
(* OrphanCleanupService *)

\* cleanupInBatches after a cleanup() returned deleted: add it to the total,
\* then leave the loop when the batch was not full, or run the next cleanup().
\* The total stops counting at MaxTotalDeleted, and the frame keeps the store
\* calls of the cleanup() in progress only.
cleanupInBatches(c, deleted) ==
    LET total == IF c.f.totalDeleted + deleted > MaxTotalDeleted THEN MaxTotalDeleted
                 ELSE c.f.totalDeleted + deleted
    IN  IF deleted < c.f.batchSize
        THEN [c EXCEPT !.f.totalDeleted = total, !.f.pc = "done", !.f.result = "ok",
                       !.f.ret = [kind |-> "count", value |-> total]]
        ELSE [c EXCEPT !.f.totalDeleted = total, !.f.pc = "cl_orphans", !.f.calls = <<>>]

\* Faulty variant of cleanup_return: the count is always 0
cleanup_return_Zero(c, count) ==
    IF c.f.op = "cleanupInBatches" THEN cleanupInBatches(c, 0)
    ELSE Return(c, "cleanup", [kind |-> "count", value |-> 0])

\* cleanup() returns its count, to its caller or to the loop of cleanupInBatches
cleanup_return(c, count) ==
    IF c.f.op = "cleanupInBatches" THEN cleanupInBatches(c, count)
    ELSE Return(c, "cleanup", [kind |-> "count", value |-> count])

cleanup(c) ==
    LET db == c.db
        f == c.f
    IN  CASE f.pc = "cl_orphans" ->
               LET orphanHashes == getOrphanBlobs(db)
                   c1 == Log(c, "getOrphanBlobs", "-", 0)
               IN  IF Len(orphanHashes) = 0
                   THEN cleanup_return(c1, 0)
                   ELSE [c1 EXCEPT !.f.orphans = orphanHashes, !.f.pc = "cl_deleteMany"]
          [] f.pc = "cl_deleteMany" ->
               LET r == BlobDeleteMany(db.blobStore, f.orphans, f.faults)
                   c1 == [Log(c, "blob.deleteMany", "-", 0) EXCEPT !.db.blobStore = r.store]
               IN  IF r.err THEN Throw(c1, "Error")
                   ELSE cleanup_return(c1, Len(f.orphans))

----------------------------------------------------------------------------
(* Running a request *)

\* The controller calls the service method: its code up to the first await
Begin(c) ==
    LET f == c.f
    IN  CASE f.op = "createDirectory" ->
               IF ~FilePath_create(f.src) THEN Throw(c, "Error") ELSE Goto(c, "cd_get")
          [] f.op = "writeFile" -> writeFile_begin(c, f.src, f.content)
          [] f.op \in {"readFile", "copyFile", "moveFile"} -> readFile_begin(c, f.src)
          [] f.op = "deleteFile" -> deleteFile_begin(c, f.src)
          [] f.op = "deleteDirectory" -> Goto(c, "dd_get")
          [] f.op = "listDirectory" -> Goto(c, "ld_get")
          [] f.op = "getInfo" -> Goto(c, "gi_get")
          [] f.op \in {"cleanup", "cleanupInBatches"} -> Goto(c, "cl_orphans")

RepoLabels == {"cd_get", "cd_parent", "cd_create", "wf_get", "wf_update", "wf_parent",
               "wf_create", "rf_get", "df_get", "df_delnode", "dd_get", "dd_list",
               "dd_delnode", "ld_get", "ld_list", "gi_get"}

\* One step: the store call at pc and the code after it up to the next await
Step(c) ==
    LET pc == c.f.pc
    IN  IF pc \in RepoLabels /\ ~ensureTenant(c.db) THEN Throw(c, "Error")
        ELSE CASE pc \in {"cd_get", "cd_parent", "cd_create"} -> createDirectory(c)
               [] pc \in {"wf_exists", "wf_write", "wf_get", "wf_update", "wf_inc", "wf_dec",
                          "wf_del", "wf_parent", "wf_create", "wf_incnew"} -> writeFile(c)
               [] pc \in {"rf_get", "rf_read"} -> readFile(c)
               [] pc \in {"df_get", "df_delnode", "df_dec", "df_delblob"} -> deleteFile(c)
               [] pc \in {"dd_get", "dd_list", "dd_delnode"} -> deleteDirectory(c)
               [] pc \in {"ld_get", "ld_list"} -> listDirectory(c)
               [] pc = "gi_get" -> getInfo(c)
               [] pc \in {"cl_orphans", "cl_deleteMany"} -> cleanup(c)

RECURSIVE Run(_)
Run(c) == IF c.f.pc = "done" THEN c ELSE Run(Step(c))

\* createTenantMiddleware: repository.setTenant(req.user.tenantId)
setTenant(db, tenantId) == [db EXCEPT !.currentTenantId = tenantId]

----------------------------------------------------------------------------
(* State machine *)

DB == [tenants |-> tenants, fs_nodes |-> fs_nodes, blobs |-> blobs,
       blobStore |-> blobStore, currentTenantId |-> currentTenantId, now |-> now]

NoHistory == [kind |-> "empty", content |-> <<>>, blobWrites |-> <<>>]

Mixed == [kind |-> "mixed", content |-> <<>>, blobWrites |-> <<>>]

CountCalls(f, fn) == Cardinality({i \in 1..Len(f.calls) : f.calls[i].fn = fn})

\* The history while every request so far was a writeFile of one content: the
\* content and, call by call, how many blob.write calls the request made.
Observe(h, f) ==
    IF f.op = "writeFile" /\ (h.kind = "empty" \/ (h.kind = "writes" /\ h.content = f.content))
    THEN [kind |-> "writes", content |-> f.content,
          blobWrites |-> Append(h.blobWrites, CountCalls(f, "blob.write"))]
    ELSE Mixed

Init ==
    /\ tenants = {}
    /\ fs_nodes = {}
    /\ blobs = {}
    /\ blobStore = {}
    /\ currentTenantId = NoTenant
    /\ now = 0
    /\ reqs = [r \in Slots |-> IdleFrame]
    /\ nops = 0
    /\ hist = NoHistory

Commit(c, r) ==
    /\ fs_nodes' = c.db.fs_nodes
    /\ blobs' = c.db.blobs
    /\ blobStore' = c.db.blobStore
    /\ currentTenantId' = c.db.currentTenantId
    /\ reqs' = [reqs EXCEPT ![r] = c.f]
    /\ UNCHANGED <<tenants, now>>

Quiet == \A r \in Slots : reqs[r].pc \in {"idle", "done"}

\* AuthController.register: the tenant row and the tenant's root directory
Register(t) ==
    /\ t \notin tenants
    /\ tenants' = tenants \cup {t}
    /\ fs_nodes' = fs_nodes \cup {Row(t, DirectoryNode(<<"/">>, now))}
    /\ UNCHANGED <<blobs, blobStore, currentTenantId, now, reqs, nops, hist>>

\* A request of a registered tenant arrives while no other is being served
Accept(t) ==
    /\ Quiet
    /\ nops + now < MaxOps
    /\ t \in tenants
    /\ nops' = nops + 1

\* The request served alone, from the tenant middleware to the response
Served(t, op, src, dst, content) ==
    Run(Begin([db |-> setTenant(DB, t), f |-> NewFrame(t, op, src, dst, content)]))

Respond(c) ==
    /\ Commit(c, 1)
    /\ hist' = Observe(hist, c.f)

CreateDirectory(t, p) ==
    /\ Accept(t)
    /\ Respond(Served(t, "createDirectory", p, <<>>, <<>>))

WriteFile(t, p, b) ==
    /\ Accept(t)
    /\ Respond(Served(t, "writeFile", p, <<>>, b))

ReadFile(t, p) ==
    /\ Accept(t)
    /\ Respond(Served(t, "readFile", p, <<>>, <<>>))

DeleteFile(t, p) ==
    /\ Accept(t)
    /\ Respond(Served(t, "deleteFile", p, <<>>, <<>>))

DeleteDirectory(t, p) ==
    /\ Accept(t)
    /\ Respond(Served(t, "deleteDirectory", p, <<>>, <<>>))

ListDirectory(t, p) ==
    /\ Accept(t)
    /\ Respond(Served(t, "listDirectory", p, <<>>, <<>>))

GetInfo(t, p) ==
    /\ Accept(t)
    /\ Respond(Served(t, "getInfo", p, <<>>, <<>>))

CopyFile(t, p, q) ==
    /\ Accept(t)
    /\ Respond(Served(t, "copyFile", p, q, <<>>))

MoveFile(t, p, q) ==
    /\ Accept(t)
    /\ Respond(Served(t, "moveFile", p, q, <<>>))

\* One reclaimer pass, triggered outside any tenant's request
Cleanup ==
    /\ Quiet
    /\ nops + now < MaxOps
    /\ nops' = nops + 1
    /\ Respond(Run(Begin([db |-> DB,
                          f |-> NewFrame(NoTenant, "cleanup", <<>>, <<>>, <<>>)])))

Next ==
    \/ \E t \in Tenants : Register(t)
    \/ \E t \in Tenants, p \in Paths : CreateDirectory(t, p)
    \/ \E t \in Tenants, p \in Paths, b \in Buffers : WriteFile(t, p, b)
    \/ \E t \in Tenants, p \in Paths : ReadFile(t, p)
    \/ \E t \in Tenants, p \in Paths : DeleteFile(t, p)
    \/ \E t \in Tenants, p \in Paths : DeleteDirectory(t, p)
    \/ \E t \in Tenants, p \in Paths : ListDirectory(t, p)
    \/ \E t \in Tenants, p \in Paths : GetInfo(t, p)
    \/ \E t \in Tenants, p \in Paths, q \in Paths : CopyFile(t, p, q)
    \/ \E t \in Tenants, p \in Paths, q \in Paths : MoveFile(t, p, q)
    \/ Cleanup

Spec == Init /\ [][Next]_vars

\* Time passes between requests
Tick ==
    /\ now < MaxClock
    /\ nops + now < MaxOps
    /\ now' = now + 1
    /\ UNCHANGED <<tenants, fs_nodes, blobs, blobStore, currentTenantId, reqs, nops, hist>>

NextClock == Next \/ Tick

SpecClock == Init /\ [][NextClock]_vars

----------------------------------------------------------------------------
(* Parallel requests: the steps of two requests interleave at the awaits *)

\* A request arrives at a free slot: the tenant middleware, then the handler up
\* to and including its first store call, all before the first await
Arrive(r, t, op, src, dst, content) ==
    /\ reqs[r].pc \in {"idle", "done"}
    /\ nops < MaxParOps
    /\ t \in tenants
    /\ nops' = nops + 1
    /\ hist' = Mixed
    /\ LET c == Begin([db |-> setTenant(DB, t), f |-> NewFrame(t, op, src, dst, content)])
       IN  Commit(IF c.f.pc = "done" THEN c ELSE Step(c), r)

\* A suspended request resumes: its next store call
Resume(r) ==
    /\ reqs[r].pc \notin {"idle", "done"}
    /\ Commit(Step([db |-> DB, f |-> reqs[r]]), r)
    /\ UNCHANGED <<nops, hist>>

PathOps == {"createDirectory", "readFile", "deleteFile", "deleteDirectory",
            "listDirectory", "getInfo"}

NextPar ==
    \/ \E t \in Tenants : Register(t)
    \/ \E r \in Slots, t \in Tenants, p \in Paths, op \in PathOps :
          Arrive(r, t, op, p, <<>>, <<>>)
    \/ \E r \in Slots, t \in Tenants, p \in Paths, b \in Buffers :
          Arrive(r, t, "writeFile", p, <<>>, b)
    \/ \E r \in Slots, t \in Tenants, p \in Paths, q \in Paths, op \in {"copyFile", "moveFile"} :
          Arrive(r, t, op, p, q, <<>>)
    \/ \E r \in Slots : Resume(r)

SpecPar == Init /\ [][NextPar]_vars

----------------------------------------------------------------------------
(* Observations used by the properties *)

\* The response of the request served last (Spec serves through slot 1)
Last == reqs[1]

Ok(op) == Last.pc = "done" /\ Last.op = op /\ Last.result = "ok"

FilesWith(nodes, h) == {n \in nodes : n.type = "file" /\ n.content_hash = h}

RowsAt(nodes, t, p) == {n \in nodes : n.tenant_id = t /\ n.path = p}

NodesOf(nodes, t) == {n \in nodes : n.tenant_id = t}

\* reference_count of the BlobRecord of h, 0 when there is none
RefCount(table, h) ==
    LET rows == {b \in table : b.content_hash = h}
    IN  IF rows = {} THEN 0 ELSE (CHOOSE b \in rows : TRUE).reference_count

KnownHashes == Hashes \cup {b.content_hash : b \in blobs}
                      \cup {n.content_hash : n \in {m \in fs_nodes : m.type = "file"}}

\* this step serves one whole request of kind op
Serves(op) == nops' = nops + 1 /\ reqs'[1].op = op

----------------------------------------------------------------------------
(* Properties *)

\* C1 Refcount exactness: whenever no request is in flight, for every hash the
\* stored reference count (0 without a BlobRecord) is the number of FileNodes,
\* over all tenants, that carry the hash.
C1_RefcountExact ==
    Quiet => \A h \in KnownHashes : RefCount(blobs, h) = Cardinality(FilesWith(fs_nodes, h))

\* C1 witness: a deleteFile has just removed one of two FileNodes of different
\* tenants sharing a hash, whose count is now 1.
C1_Witness ==
    /\ Ok("deleteFile")
    /\ RefCount(blobs, Last.node.content_hash) = 1
    /\ \E n \in FilesWith(fs_nodes, Last.node.content_hash) : n.tenant_id # Last.tenant

\* C2 Hash integrity: whenever no request or reclaimer pass is in flight, every
\* FileNode has a BlobRecord with refcount >= 1 and a blob object under its hash.
C2_HashIntegrity ==
    Quiet => \A n \in fs_nodes :
                n.type = "file" =>
                    /\ RefCount(blobs, n.content_hash) >= 1
                    /\ BlobExists(blobStore, n.content_hash)

\* C2 witness: a reclaimer pass has just handled an orphan while a FileNode exists.
C2_Witness ==
    /\ Ok("cleanup")
    /\ Last.ret.value >= 1
    /\ \E n \in fs_nodes : n.type = "file"

\* C3 Dedup: while every request so far was a writeFile of one and the same
\* content, the blob store holds exactly one object, the one of that content's
\* hash, blob.write was called by the first request only, and the hash's
\* refcount is the number of FileNodes with the hash.
C3_Dedup ==
    hist.kind = "writes" =>
        LET H == Sha256(hist.content)
        IN  /\ Cardinality(BlobFiles(blobStore, H)) = 1
            /\ Cardinality(blobStore) = 1
            /\ hist.blobWrites[1] = 1
            /\ \A i \in 2..Len(hist.blobWrites) : hist.blobWrites[i] = 0
            /\ RefCount(blobs, H) = Cardinality(FilesWith(fs_nodes, H))

\* C3 witness: three writeFile calls of one content, to nodes of both tenants.
C3_Witness ==
    /\ hist.kind = "writes"
    /\ Len(hist.blobWrites) = 3
    /\ RefCount(blobs, Sha256(hist.content)) = 2
    /\ \A t \in Tenants : \E n \in FilesWith(fs_nodes, Sha256(hist.content)) : n.tenant_id = t

\* C4 Tenant isolation, requests one at a time: a request of tenant T leaves the
\* nodes of every other tenant as they were, and what it returns is a node (or
\* the content of a FileNode) of T.
C4_TenantIsolation ==
    [][nops' = nops + 1 =>
        LET f == reqs'[1]
        IN  /\ \A t \in Tenants \ {f.tenant} : NodesOf(fs_nodes', t) = NodesOf(fs_nodes, t)
            /\ f.ret.kind = "node" => f.ret.value \in NodesOf(fs_nodes, f.tenant)
            /\ f.ret.kind = "nodes" =>
                   \A i \in 1..Len(f.ret.value) : f.ret.value[i] \in NodesOf(fs_nodes, f.tenant)
            /\ f.ret.kind = "buffer" =>
                   \E n \in RowsAt(fs_nodes, f.tenant, f.src) :
                       n.type = "file" /\ n.content_hash = Sha256(f.ret.value)]_vars

\* C4 witness: a tenant has deleted its file at a path where another tenant
\* still has a file.
C4_Witness ==
    /\ Ok("deleteFile")
    /\ RowsAt(fs_nodes, Last.tenant, Last.src) = {}
    /\ \E t \in Tenants \ {Last.tenant} : \E n \in RowsAt(fs_nodes, t, Last.src) : n.type = "file"

\* C5 Tenant context under parallel requests: every metadata-store call of a
\* request is made under the tenant of that request.
C5_TenantScopedCalls ==
    \A r \in Slots : \A i \in 1..Len(reqs[r].calls) :
        reqs[r].calls[i].tenant \in {"-", reqs[r].tenant}

\* C6 Parent existence: whenever no request is in flight, every node at a path
\* other than "/" has a DirectoryNode of its tenant at its parent path.
C6_ParentExistence ==
    Quiet => \A n \in fs_nodes :
                n.path # <<"/">> =>
                    \E d \in RowsAt(fs_nodes, n.tenant_id, ParentPath(n.path)) :
                        d.type = "directory"

\* C7 Round-trip: writeFile(p, B) on a valid path whose parent exists and that
\* holds no directory succeeds; and readFile(p) right after a successful
\* writeFile(p, B) returns B, the node at p carrying the content hash of B.
C7_RoundTrip ==
    [][/\ (/\ Serves("writeFile")
           /\ FilePath_create(reqs'[1].src)
           /\ reqs'[1].src # <<"/">>
           /\ RowsAt(fs_nodes, reqs'[1].tenant, ParentPath(reqs'[1].src)) # {}
           /\ \A n \in RowsAt(fs_nodes, reqs'[1].tenant, reqs'[1].src) : n.type # "directory")
          => reqs'[1].result = "ok"
       /\ (/\ Ok("writeFile")
           /\ Serves("readFile")
           /\ reqs'[1].tenant = Last.tenant
           /\ reqs'[1].src = Last.src)
          => /\ reqs'[1].result = "ok"
             /\ reqs'[1].ret = [kind |-> "buffer", value |-> Last.content]
             /\ \E n \in RowsAt(fs_nodes', Last.tenant, Last.src) :
                    n.type = "file" /\ n.content_hash = Sha256(Last.content)]_vars

\* C7 witness: a readFile has returned the non-empty content of its file.
C7_Witness ==
    /\ Ok("readFile")
    /\ Last.ret.value # <<>>
    /\ \E n \in RowsAt(fs_nodes, Last.tenant, Last.src) :
           n.content_hash = Sha256(Last.ret.value)

\* C8 Idempotent rewrite: writeFile(p, B) right after a successful
\* writeFile(p, B) succeeds and leaves one FileNode at p, the refcount of
\* hash(B) unchanged (1 when p is the only FileNode with the hash), modifiedAt
\* set to the time of the second call, and the blob store as it was, with no
\* blob.write and no blob.delete.
C8_IdempotentRewrite ==
    [][(/\ Ok("writeFile")
        /\ Serves("writeFile")
        /\ reqs'[1].tenant = Last.tenant
        /\ reqs'[1].src = Last.src
        /\ reqs'[1].content = Last.content)
       => LET H == Sha256(Last.content)
              at == RowsAt(fs_nodes', Last.tenant, Last.src)
          IN  /\ reqs'[1].result = "ok"
              /\ Cardinality(at) = 1
              /\ \A n \in at : n.type = "file" /\ n.content_hash = H /\ n.modified_at = now'
              /\ Cardinality(fs_nodes') = Cardinality(fs_nodes)
              /\ RefCount(blobs', H) = RefCount(blobs, H)
              /\ Cardinality(FilesWith(fs_nodes', H)) = 1 => RefCount(blobs', H) = 1
              /\ blobStore' = blobStore
              /\ CountCalls(reqs'[1], "blob.write") = 0
              /\ CountCalls(reqs'[1], "blob.delete") = 0]_vars

\* C8 witness: a file has been rewritten with the content it had, later than it
\* was created.
C8_Witness ==
    /\ Ok("writeFile")
    /\ Last.oldHash = Last.hashString
    /\ \E n \in RowsAt(fs_nodes, Last.tenant, Last.src) :
           n.modified_at > n.created_at /\ n.modified_at = now

\* C9 Overwrite with different content: writeFile(p, B2) on a FileNode with
\* hash H1 # hash(B2) = H2 succeeds and leaves one FileNode at p with hash H2
\* and size |B2|, refcount(H2) one higher, refcount(H1) one lower, blob H2
\* present, and blob H1 deleted exactly when refcount(H1) has reached 0.
C9_Overwrite ==
    [][\A old \in RowsAt(fs_nodes, reqs'[1].tenant, reqs'[1].src) :
        (/\ Serves("writeFile")
         /\ old.type = "file"
         /\ old.content_hash # Sha256(reqs'[1].content))
        => LET H1 == old.content_hash
               H2 == Sha256(reqs'[1].content)
               at == RowsAt(fs_nodes', reqs'[1].tenant, reqs'[1].src)
           IN  /\ reqs'[1].result = "ok"
               /\ Cardinality(at) = 1
               /\ \A n \in at : /\ n.type = "file"
                                /\ n.content_hash = H2
                                /\ n.size = Len(reqs'[1].content)
               /\ RefCount(blobs', H2) = RefCount(blobs, H2) + 1
               /\ RefCount(blobs', H1) = RefCount(blobs, H1) - 1
               /\ BlobExists(blobStore', H2)
               /\ BlobExists(blobStore, H1)
               /\ ~BlobExists(blobStore', H1) <=> RefCount(blobs', H1) = 0]_vars

\* C9 witness: an overwrite has dropped the last reference to the old hash,
\* whose blob is gone, and the file carries the new hash.
C9_Witness ==
    /\ Ok("writeFile")
    /\ Last.oldHash # 0
    /\ Last.oldHash # Last.hashString
    /\ RefCount(blobs, Last.oldHash) = 0
    /\ ~BlobExists(blobStore, Last.oldHash)
    /\ \E n \in RowsAt(fs_nodes, Last.tenant, Last.src) : n.content_hash = Last.hashString

\* C10 deleteFile on a FileNode with hash H succeeds, removes that node and no
\* other, lowers refcount(H) by exactly 1, and deletes the blob of H if and only
\* if the new refcount is 0.
C10_DeleteFile ==
    [][\A old \in RowsAt(fs_nodes, reqs'[1].tenant, reqs'[1].src) :
        (Serves("deleteFile") /\ old.type = "file")
        => LET H == old.content_hash
           IN  /\ reqs'[1].result = "ok"
               /\ fs_nodes' = fs_nodes \ {old}
               /\ RefCount(blobs', H) = RefCount(blobs, H) - 1
               /\ BlobExists(blobStore, H)
               /\ ~BlobExists(blobStore', H) <=> RefCount(blobs', H) = 0
               /\ \A h \in KnownHashes \ {H} :
                      /\ RefCount(blobs', h) = RefCount(blobs, h)
                      /\ BlobExists(blobStore', h) <=> BlobExists(blobStore, h)]_vars

\* C10 witness: of two FileNodes of different tenants sharing a hash, the first
\* has been deleted: refcount 1, blob present.
C10_Witness ==
    /\ Ok("deleteFile")
    /\ RefCount(blobs, Last.node.content_hash) = 1
    /\ BlobExists(blobStore, Last.node.content_hash)
    /\ Cardinality(FilesWith(fs_nodes, Last.node.content_hash)) = 1

----------------------------------------------------------------------------
(* Requests with arbitrary path arguments, and runs on one tenant's tree *)

\* requests served in runs with arbitrary path arguments
MaxArgOps == 2
\* requests served in runs on one tenant's tree
MaxTreeOps == 4

\* rejected by FilePath.create: empty, relative, with "..", with a NUL byte
InvalidPaths == {<<>>, <<"a">>, <<"/", ".", ".">>, <<"/", "NUL">>}

ArgPaths == InvalidPaths \cup {<<"/">>, <<"/", "a">>}

TreePaths == {<<"/">>, <<"/", "a", "_">>, <<"/", "a", "b">>, <<"/", "a", "b", "/", "a">>}

TreeOps == {"createDirectory", "writeFile", "deleteFile", "deleteDirectory", "listDirectory"}

\* A request served alone, at most limit of them in a run
Call(limit, t, op, src, dst, content) ==
    /\ Quiet
    /\ nops < limit
    /\ t \in tenants
    /\ nops' = nops + 1
    /\ Respond(Served(t, op, src, dst, content))

NextArgs ==
    \/ \E t \in {"T1"} : Register(t)
    \/ \E p \in ArgPaths, op \in PathOps : Call(MaxArgOps, "T1", op, p, <<>>, <<>>)
    \/ \E p \in ArgPaths, b \in Buffers : Call(MaxArgOps, "T1", "writeFile", p, <<>>, b)
    \/ \E p \in ArgPaths, q \in ArgPaths, op \in {"copyFile", "moveFile"} :
          Call(MaxArgOps, "T1", op, p, q, <<>>)

SpecArgs == Init /\ [][NextArgs]_vars

NextTree ==
    \/ \E t \in {"T1"} : Register(t)
    \/ \E p \in TreePaths, op \in TreeOps : Call(MaxTreeOps, "T1", op, p, <<>>, <<104, 105>>)

SpecTree == Init /\ [][NextTree]_vars

\* the path arguments of a request: one, or source and destination
PathArgs(f) == IF f.op \in {"copyFile", "moveFile"} THEN {f.src, f.dst} ELSE {f.src}

\* C11 Path validation totality: a request of a public operation with a path
\* argument that FilePath.create rejects (empty, not starting with "/",
\* containing "..", containing a NUL byte) fails with InvalidPath and has made
\* no metadata-store and no blob-store call.
C11_InvalidPathRejected ==
    \A r \in Slots :
        (/\ reqs[r].pc = "done"
         /\ reqs[r].op # "cleanup"
         /\ \E p \in PathArgs(reqs[r]) : ~FilePath_create(p))
        => /\ reqs[r].result = "InvalidPathError"
           /\ reqs[r].calls = <<>>

\* C12 copyFile(src, dst) with a FileNode at src, nothing at dst and a valid dst
\* whose parent exists succeeds, creates a FileNode at dst with the hash and
\* size of src, leaves src and every other node unchanged, raises the hash's
\* refcount by exactly 1, and calls no blob.write (the blob store is unchanged).
C12_CopyFile ==
    [][\A s \in RowsAt(fs_nodes, reqs'[1].tenant, reqs'[1].src) :
        (/\ Serves("copyFile")
         /\ s.type = "file"
         /\ RowsAt(fs_nodes, reqs'[1].tenant, reqs'[1].dst) = {}
         /\ FilePath_create(reqs'[1].dst)
         /\ RowsAt(fs_nodes, reqs'[1].tenant, ParentPath(reqs'[1].dst)) # {})
        => LET at == RowsAt(fs_nodes', reqs'[1].tenant, reqs'[1].dst)
           IN  /\ reqs'[1].result = "ok"
               /\ Cardinality(at) = 1
               /\ \A n \in at : /\ n.type = "file"
                                /\ n.content_hash = s.content_hash
                                /\ n.size = s.size
               /\ fs_nodes' = fs_nodes \cup at
               /\ RefCount(blobs', s.content_hash) = RefCount(blobs, s.content_hash) + 1
               /\ CountCalls(reqs'[1], "blob.write") = 0
               /\ blobStore' = blobStore]_vars

\* C12 witness: after a write and a copy of non-empty content, source and
\* destination carry one hash whose refcount is 2, the copy having written no blob.
C12_Witness ==
    /\ Ok("copyFile")
    /\ Last.src # Last.dst
    /\ Last.buf # <<>>
    /\ CountCalls(Last, "blob.write") = 0
    /\ RefCount(blobs, Last.hashString) = 2
    /\ \E n \in RowsAt(fs_nodes, Last.tenant, Last.src) : n.content_hash = Last.hashString
    /\ \E n \in RowsAt(fs_nodes, Last.tenant, Last.dst) : n.content_hash = Last.hashString

\* C13 copyFile and moveFile never overwrite: with a FileNode at src and a node
\* (file or directory) at another path dst, the operation fails with Conflict
\* and leaves all nodes and all refcounts unchanged.
C13_NoOverwrite ==
    [][\A s \in RowsAt(fs_nodes, reqs'[1].tenant, reqs'[1].src) :
        (/\ nops' = nops + 1
         /\ reqs'[1].op \in {"copyFile", "moveFile"}
         /\ s.type = "file"
         /\ reqs'[1].dst # reqs'[1].src
         /\ RowsAt(fs_nodes, reqs'[1].tenant, reqs'[1].dst) # {})
        => /\ reqs'[1].result = "FileAlreadyExistsError"
           /\ fs_nodes' = fs_nodes
           /\ \A h \in KnownHashes : RefCount(blobs', h) = RefCount(blobs, h)]_vars

\* C14 moveFile(src, dst) with a FileNode at src, src # dst, nothing at dst and
\* a valid dst whose parent exists succeeds, leaves no node at src and a
\* FileNode at dst with the hash src had, and leaves the refcount of that hash
\* and the blob store as they were.
C14_MoveFile ==
    [][\A s \in RowsAt(fs_nodes, reqs'[1].tenant, reqs'[1].src) :
        (/\ Serves("moveFile")
         /\ s.type = "file"
         /\ reqs'[1].dst # reqs'[1].src
         /\ RowsAt(fs_nodes, reqs'[1].tenant, reqs'[1].dst) = {}
         /\ FilePath_create(reqs'[1].dst)
         /\ RowsAt(fs_nodes, reqs'[1].tenant, ParentPath(reqs'[1].dst)) # {})
        => LET at == RowsAt(fs_nodes', reqs'[1].tenant, reqs'[1].dst)
           IN  /\ reqs'[1].result = "ok"
               /\ RowsAt(fs_nodes', reqs'[1].tenant, reqs'[1].src) = {}
               /\ Cardinality(at) = 1
               /\ \A n \in at : n.type = "file" /\ n.content_hash = s.content_hash
               /\ fs_nodes' = (fs_nodes \ {s}) \cup at
               /\ RefCount(blobs', s.content_hash) = RefCount(blobs, s.content_hash)
               /\ BlobExists(blobStore', s.content_hash)
               /\ blobStore' = blobStore]_vars

\* C14 witness: a file has moved: nothing at src, the file at dst, its hash
\* referenced once and its blob present.
C14_Witness ==
    /\ Ok("moveFile")
    /\ Last.src # Last.dst
    /\ RowsAt(fs_nodes, Last.tenant, Last.src) = {}
    /\ \E n \in RowsAt(fs_nodes, Last.tenant, Last.dst) : n.content_hash = Last.hashString
    /\ RefCount(blobs, Last.hashString) = 1
    /\ BlobExists(blobStore, Last.hashString)

\* C15 Missing parent: createDirectory(p) and writeFile(p, B) on a valid path
\* p # "/" with no node at p and no node at the parent path of p fail with
\* DirectoryNotFound, create no node and change no refcount.
C15_MissingParent ==
    [][(/\ nops' = nops + 1
        /\ reqs'[1].op \in {"createDirectory", "writeFile"}
        /\ FilePath_create(reqs'[1].src)
        /\ reqs'[1].src # <<"/">>
        /\ RowsAt(fs_nodes, reqs'[1].tenant, reqs'[1].src) = {}
        /\ RowsAt(fs_nodes, reqs'[1].tenant, ParentPath(reqs'[1].src)) = {})
       => /\ reqs'[1].result = "DirectoryNotFoundError"
          /\ fs_nodes' = fs_nodes
          /\ \A h \in KnownHashes \cup {Sha256(reqs'[1].content)} :
                 RefCount(blobs', h) = RefCount(blobs, h)]_vars

\* C15 witness: a writeFile below a missing parent has failed with
\* DirectoryNotFound; there is no node at its path and its hash is unreferenced.
C15_Witness ==
    /\ Last.pc = "done"
    /\ Last.op = "writeFile"
    /\ Last.result = "DirectoryNotFoundError"
    /\ RowsAt(fs_nodes, Last.tenant, Last.src) = {}
    /\ RowsAt(fs_nodes, Last.tenant, ParentPath(Last.src)) = {}
    /\ RefCount(blobs, Last.hashString) = 0

\* C16 createDirectory(p) on a path that holds a node (file or directory, the
\* root included) fails with Conflict and changes nothing; createDirectory("/")
\* succeeds exactly when the tenant has no root.
C16_CreateOverExisting ==
    [][Serves("createDirectory") =>
        /\ RowsAt(fs_nodes, reqs'[1].tenant, reqs'[1].src) # {} =>
              /\ reqs'[1].result = "FileAlreadyExistsError"
              /\ fs_nodes' = fs_nodes
              /\ blobs' = blobs
              /\ blobStore' = blobStore
        /\ reqs'[1].src = <<"/">> =>
              (reqs'[1].result = "ok" <=> RowsAt(fs_nodes, reqs'[1].tenant, <<"/">>) = {})]_vars

\* C16 witness: a createDirectory on the path of a file has failed with Conflict.
C16_Witness ==
    /\ Last.pc = "done"
    /\ Last.op = "createDirectory"
    /\ Last.result = "FileAlreadyExistsError"
    /\ \E n \in RowsAt(fs_nodes, Last.tenant, Last.src) : n.type = "file"

ConflictErrors == {"FileAlreadyExistsError", "DirectoryNotEmptyError"}

\* C18 Root deletion is forbidden: deleteDirectory("/") on an existing root,
\* with or without children, fails with Conflict and the root stays.
C18_RootDeletionForbidden ==
    [][(/\ Serves("deleteDirectory")
        /\ reqs'[1].src = <<"/">>
        /\ \E d \in RowsAt(fs_nodes, reqs'[1].tenant, <<"/">>) : d.type = "directory")
       => /\ reqs'[1].result \in ConflictErrors
          /\ RowsAt(fs_nodes', reqs'[1].tenant, <<"/">>)
                = RowsAt(fs_nodes, reqs'[1].tenant, <<"/">>)]_vars

\* C19 Operations on an absent path: readFile, deleteFile and getInfo fail with
\* FileNotFound, listDirectory and deleteDirectory with DirectoryNotFound, and
\* nodes, refcounts and blobs are unchanged; readFile(p) right after a
\* successful deleteFile(p) fails with FileNotFound.
C19_AbsentPath ==
    [][/\ (/\ nops' = nops + 1
           /\ reqs'[1].op \in {"readFile", "deleteFile", "getInfo",
                               "listDirectory", "deleteDirectory"}
           /\ RowsAt(fs_nodes, reqs'[1].tenant, reqs'[1].src) = {})
          => /\ reqs'[1].result =
                    IF reqs'[1].op \in {"listDirectory", "deleteDirectory"}
                    THEN "DirectoryNotFoundError" ELSE "FileNotFoundError"
             /\ fs_nodes' = fs_nodes
             /\ blobs' = blobs
             /\ blobStore' = blobStore
       /\ (/\ Ok("deleteFile")
           /\ Serves("readFile")
           /\ reqs'[1].tenant = Last.tenant
           /\ reqs'[1].src = Last.src)
          => reqs'[1].result = "FileNotFoundError"]_vars

\* C19 witness: a readFile has failed with FileNotFound on the path of a file
\* that was deleted: no node there, and the file's hash left unreferenced.
C19_Witness ==
    /\ Last.pc = "done"
    /\ Last.op = "readFile"
    /\ Last.result = "FileNotFoundError"
    /\ RowsAt(fs_nodes, Last.tenant, Last.src) = {}
    /\ \E b \in blobs : b.reference_count = 0
    /\ blobStore = {}

\* the nodes of tenant t whose parent path is d: the children of d
ChildrenOf(nodes, t, d) ==
    {n \in NodesOf(nodes, t) : n.path # d /\ ParentPath(n.path) = d}

\* the nodes of tenant t at a path below d, at any depth
Beneath(nodes, t, d) ==
    {n \in NodesOf(nodes, t) :
        /\ n.path # d
        /\ StartsWith(n.path, IF d = <<"/">> THEN d ELSE d \o <<"/">>)}

\* C17 Directory emptiness for delete: deleteDirectory(p) on a directory with
\* at least one child fails with Conflict and removes nothing; on a directory
\* other than the root with no child it succeeds and removes that directory;
\* and it never removes a directory while a node exists beneath it.
C17_DeleteDirectory ==
    [][\A d \in RowsAt(fs_nodes, reqs'[1].tenant, reqs'[1].src) :
        (Serves("deleteDirectory") /\ d.type = "directory")
        => /\ ChildrenOf(fs_nodes, d.tenant_id, d.path) # {} =>
                 reqs'[1].result \in ConflictErrors /\ fs_nodes' = fs_nodes
           /\ (ChildrenOf(fs_nodes, d.tenant_id, d.path) = {} /\ d.path # <<"/">>) =>
                 reqs'[1].result = "ok" /\ fs_nodes' = fs_nodes \ {d}
           /\ d \notin fs_nodes' => Beneath(fs_nodes, d.tenant_id, d.path) = {}]_vars

\* C20 listDirectory(d) on a DirectoryNode succeeds and returns, each once,
\* exactly the nodes of the tenant whose parent path is d: every child, and
\* neither d itself, nor deeper descendants, nor nodes of another directory.
C20_ListDirectory ==
    [][\A d \in RowsAt(fs_nodes, reqs'[1].tenant, reqs'[1].src) :
        (Serves("listDirectory") /\ d.type = "directory")
        => /\ reqs'[1].result = "ok"
           /\ reqs'[1].ret.kind = "nodes"
           /\ {reqs'[1].ret.value[i] : i \in 1..Len(reqs'[1].ret.value)}
                 = ChildrenOf(fs_nodes, d.tenant_id, d.path)
           /\ Len(reqs'[1].ret.value) = Cardinality(ChildrenOf(fs_nodes, d.tenant_id, d.path))]_vars

----------------------------------------------------------------------------
(* The reclaimer, FilePath and races between requests *)

\* C21 listChildren ordering: in the sequence listDirectory returns, every
\* DirectoryNode comes before every FileNode, and within each kind the paths
\* ascend.
C21_ListOrder ==
    Ok("listDirectory") =>
       \A i \in 1..Len(Last.ret.value), j \in 1..Len(Last.ret.value) :
          i < j => /\ ~(Last.ret.value[i].type = "file" /\ Last.ret.value[j].type = "directory")
                   /\ Last.ret.value[i].type = Last.ret.value[j].type
                         => StrLess(Last.ret.value[i].path, Last.ret.value[j].path)

\* requests served in runs of the reclaimer
MaxReclaimOps == 4

\* a file in the root, and a path whose parent directory does not exist
ReclaimPaths == {<<"/", "a">>, <<"/", "b", "/", "a">>}

BatchSizes == {1, 2}

\* One reclaimer pass during which fs.unlink fails for the blob files in faults
Reclaim(faults) ==
    /\ Quiet
    /\ nops < MaxReclaimOps
    /\ nops' = nops + 1
    /\ Respond(Run(Begin([db |-> DB,
                          f |-> [NewFrame(NoTenant, "cleanup", <<>>, <<>>, <<>>)
                                    EXCEPT !.faults = faults]])))

\* cleanupInBatches(batchSize) is called: its code up to and including the
\* first store call of its first cleanup()
ReclaimInBatches(batchSize) ==
    /\ Quiet
    /\ nops < MaxReclaimOps
    /\ nops' = nops + 1
    /\ hist' = Mixed
    /\ Commit(Step(Begin([db |-> DB,
                          f |-> [NewFrame(NoTenant, "cleanupInBatches", <<>>, <<>>, <<>>)
                                    EXCEPT !.batchSize = batchSize]])), 1)

NextReclaim ==
    \/ \E t \in {"T1"} : Register(t)
    \/ \E p \in ReclaimPaths, b \in Buffers, op \in {"writeFile", "deleteFile"} :
          Call(MaxReclaimOps, "T1", op, p, <<>>, b)
    \/ \E faults \in SUBSET Hashes : Reclaim(faults)
    \/ \E batchSize \in BatchSizes : ReclaimInBatches(batchSize)
    \/ \E r \in {1} : Resume(r)

\* a call that is suspended at an await is resumed by the event loop
SpecReclaim == Init /\ [][NextReclaim]_vars /\ WF_vars(\E r \in {1} : Resume(r))

\* the hashes whose BlobRecord has reference count 0
OrphanSet(table) == {b.content_hash : b \in {x \in table : x.reference_count = 0}}

C24_BatchesTerminate ==
    (Last.op = "cleanupInBatches") ~> (Last.op = "cleanupInBatches" /\ Last.pc = "done")

\* C25 Partial failure in bulk delete: when, in a reclaimer pass, deleting the
\* blob of one orphan hash fails, the blobs of the other orphan hashes are
\* still deleted, the failure is reported instead of aborting and the pass
\* completes; the hashes that failed remain orphans for the next pass.
C25_PartialFailure ==
    [][(/\ Serves("cleanup")
        /\ \E h \in OrphanSet(blobs) : UnlinkFails(blobStore, h, reqs'[1].faults))
       => /\ reqs'[1].result = "ok"
          /\ \A h \in OrphanSet(blobs) :
                IF UnlinkFails(blobStore, h, reqs'[1].faults)
                THEN h \in OrphanSet(blobs') /\ BlobFiles(blobStore', h) # {}
                ELSE BlobFiles(blobStore', h) = {}]_vars

\* requests started in runs with races
MaxRaceOps == 3

RacePaths == {<<"/", "a">>, <<"/", "b">>}

\* three contents with three hashes
RaceBuffers == Buffers \cup {<<104>>}

\* A request arrives at the first free slot while the other slot may be in
\* flight, at most limit of them in a run: the handler up to its first store call
Enter(limit, r, t, op, src, content) ==
    /\ reqs[r].pc \in {"idle", "done"}
    /\ \A q \in Slots : q < r => reqs[q].pc \notin {"idle", "done"}
    /\ nops < limit
    /\ t \in tenants
    /\ nops' = nops + 1
    /\ hist' = Mixed
    /\ LET c == Begin([db |-> setTenant(DB, t), f |-> NewFrame(t, op, src, <<>>, content)])
       IN  Commit(IF c.f.pc = "done" THEN c ELSE Step(c), r)

NextRace ==
    \/ \E t \in {"T1"} : Register(t)
    \/ \E r \in Slots, p \in RacePaths, b \in RaceBuffers :
          Enter(MaxRaceOps, r, "T1", "writeFile", p, b)
    \/ \E r \in Slots, p \in RacePaths : Enter(MaxRaceOps, r, "T1", "deleteFile", p, <<>>)
    \/ \E r \in Slots : Resume(r)

SpecRace == Init /\ [][NextRace]_vars

\* in this step request r makes the store call fn on hash h
Calls(r, fn, h) ==
    /\ Len(reqs'[r].calls) = Len(reqs[r].calls) + 1
    /\ reqs'[r].calls[Len(reqs'[r].calls)].fn = fn
    /\ reqs'[r].calls[Len(reqs'[r].calls)].hash = h

\* C26 Monotone refcount: under every interleaving of writeFile and deleteFile
\* requests, every reference count is >= 0 in every state. A
\* decrementBlobRefCount on a record whose count is 0 leaves the blobs table
\* unchanged and the request fails with an error; on a hash without a record
\* it returns 0 (the caller goes on to delete the blob) and creates no record;
\* otherwise it lowers the count by 1.
C26_MonotoneRefcount ==
    [][/\ \A b \in blobs' : b.reference_count >= 0
       /\ \A r \in Slots, h \in KnownHashes :
             Calls(r, "decrementBlobRefCount", h) =>
                IF {b \in blobs : b.content_hash = h} = {}
                THEN /\ blobs' = blobs
                     /\ reqs'[r].result # "Error"
                     /\ reqs'[r].pc \in {"df_delblob", "wf_del"}
                ELSE IF RefCount(blobs, h) = 0
                THEN /\ blobs' = blobs
                     /\ reqs'[r].pc = "done"
                     /\ reqs'[r].result = "Error"
                ELSE /\ RefCount(blobs', h) = RefCount(blobs, h) - 1
                     /\ reqs'[r].result # "Error"]_vars

\* C26 witness: a request has failed at its decrementBlobRefCount on a record
\* whose count is 0.
C26_Witness ==
    \E r \in Slots :
       /\ reqs[r].pc = "done"
       /\ reqs[r].result = "Error"
       /\ Len(reqs[r].calls) > 0
       /\ reqs[r].calls[Len(reqs[r].calls)].fn = "decrementBlobRefCount"
       /\ {b \in blobs : b.content_hash = reqs[r].calls[Len(reqs[r].calls)].hash} # {}
       /\ RefCount(blobs, reqs[r].calls[Len(reqs[r].calls)].hash) = 0

----------------------------------------------------------------------------
(* FilePath on its own *)

\* longest string given to FilePath.create
MaxPathLen == 3

PathChars == {"/", ".", "a", "NUL"}

PathStrings == UNION {[1..n -> PathChars] : n \in 0..MaxPathLen}

\* FilePath.create(s) is called
Create(s) ==
    /\ reqs' = [reqs EXCEPT ![1] =
                  [NewFrame(NoTenant, "FilePath.create", s, <<>>, <<>>) EXCEPT
                      !.pc = "done",
                      !.result = IF FilePath_create(s) THEN "ok" ELSE "Error",
                      !.ret = IF FilePath_create(s)
                              THEN [kind |-> "string", value |-> toString(FilePath(s))]
                              ELSE Void]]
    /\ UNCHANGED <<tenants, fs_nodes, blobs, blobStore, currentTenantId, now, nops, hist>>

\* FilePath.create(s).equals(FilePath.create(t)) is called
Equals(s, t) ==
    /\ FilePath_create(s)
    /\ FilePath_create(t)
    /\ reqs' = [reqs EXCEPT ![1] =
                  [NewFrame(NoTenant, "FilePath.equals", s, t, <<>>) EXCEPT
                      !.pc = "done",
                      !.result = "ok",
                      !.ret = [kind |-> "boolean",
                               value |-> equals(FilePath(s), FilePath(t))]]]
    /\ UNCHANGED <<tenants, fs_nodes, blobs, blobStore, currentTenantId, now, nops, hist>>

NextPath ==
    \/ \E s \in PathStrings : Create(s)
    \/ \E s \in PathStrings, t \in PathStrings : Equals(s, t)

SpecPath == Init /\ [][NextPath]_vars

\* C27 FilePath.create(s) returns a path whose string form is s exactly when s
\* starts with "/", contains no two dots in a row and no NUL byte; for every
\* other string, the empty one included, it throws; the root "/" is accepted;
\* two paths are equal exactly when their strings are.
C27_FilePath ==
    /\ Last.op = "FilePath.create" =>
          IF /\ Last.src # <<>>
             /\ Last.src[1] = "/"
             /\ \A i \in 1..Len(Last.src) : Last.src[i] # "NUL"
             /\ \A i \in 1..(Len(Last.src) - 1) : ~(Last.src[i] = "." /\ Last.src[i + 1] = ".")
          THEN Last.result = "ok" /\ Last.ret.value = Last.src
          ELSE Last.result = "Error"
    /\ Last.op = "FilePath.equals" => Last.ret.value = (Last.src = Last.dst)

\* C27 witness: FilePath.create("/") has returned the root path.
C27_Witness ==
    /\ Last.op = "FilePath.create"
    /\ Last.src = <<"/">>
    /\ Last.result = "ok"
    /\ Last.ret.value = <<"/">>

----------------------------------------------------------------------------
(* Two requests race after requests served one at a time *)

\* requests in a run that ends with two racing requests
MaxDuelOps == 4

\* A request served alone, before the two that race
Alone(op, src, content) == Call(MaxDuelOps - 2, "T1", op, src, <<>>, content)

\* One of the last two requests of the run arrives
Racing(r, op, src, content) ==
    /\ nops >= MaxDuelOps - 2
    /\ Enter(MaxDuelOps, r, "T1", op, src, content)

NextDuel ==
    \/ \E t \in {"T1"} : Register(t)
    \/ \E p \in RacePaths, b \in RaceBuffers : Alone("writeFile", p, b)
    \/ \E p \in RacePaths : Alone("deleteFile", p, <<>>)
    \/ \E r \in Slots, p \in RacePaths, b \in RaceBuffers : Racing(r, "writeFile", p, b)
    \/ \E r \in Slots, p \in RacePaths : Racing(r, "deleteFile", p, <<>>)
    \/ \E r \in Slots : Resume(r)

\* a request that is suspended at an await is resumed by the event loop
SpecDuel == Init /\ [][NextDuel]_vars /\ \A r \in Slots : WF_vars(Resume(r))

\* the hash whose blob a request is about to delete, its decrementBlobRefCount
\* having returned 0; 0 when the request is not at that point
Deleting(f) ==
    IF f.pc = "df_delblob" THEN f.node.content_hash
    ELSE IF f.pc = "wf_del" THEN f.oldHash
    ELSE 0

\* C28 Delete/write race: a writeFile of content with hash H has arrived (it
\* has made its first store call) after another request's
\* decrementBlobRefCount(H) returned 0 and before that request's
\* blob.delete(H). Then both requests complete, and the writer's FileNode
\* exists with hash H, the reference count of H is >= 1 and the blob of H is
\* present. (The request that arrived first is in slot 1, the writer in slot 2.)
C28_DeleteWriteRace ==
    (/\ Deleting(reqs[1]) # 0
     /\ reqs[2].op = "writeFile"
     /\ reqs[2].hashString = Deleting(reqs[1])
     /\ reqs[2].pc # "done"
     /\ Len(reqs[2].calls) = 1)
    ~> (/\ reqs[1].pc = "done"
        /\ reqs[2].pc = "done"
        /\ \E n \in FilesWith(fs_nodes, reqs[2].hashString) : n.path = reqs[2].src
        /\ RefCount(blobs, reqs[2].hashString) >= 1
        /\ BlobFiles(blobStore, reqs[2].hashString) # {})

\* for every hash the reference count is the number of FileNodes that carry it
Exact ==
    \A h \in KnownHashes : RefCount(blobs, h) = Cardinality(FilesWith(fs_nodes, h))

\* every hash some FileNode carries has its blob
LiveBlobsPresent ==
    \A n \in fs_nodes : n.type = "file" => BlobFiles(blobStore, n.content_hash) # {}

\* C29 Concurrent deletes of one file: two deleteFile requests on the same
\* path are in flight and each has read the FileNode, while the reference counts
\* are exact and every referenced blob is present. Then both complete, the
\* reference count has been decremented once in total (the counts are exact
\* again), and no blob that another FileNode with the same hash references
\* has been deleted.
C29_ConcurrentDeletes ==
    (/\ reqs[1].op = "deleteFile" /\ reqs[1].pc = "df_delnode"
     /\ reqs[2].op = "deleteFile" /\ reqs[2].pc = "df_delnode"
     /\ reqs[1].src = reqs[2].src
     /\ Exact
     /\ LiveBlobsPresent)
    ~> (/\ reqs[1].pc = "done"
        /\ reqs[2].pc = "done"
        /\ Exact
        /\ LiveBlobsPresent)

\* C30 Concurrent overwrites of one file: two writeFile requests on the path
\* of an existing file with hash H0 are in flight with different contents H1
\* and H2, both different from H0, neither has made a metadata call yet, and
\* the reference counts are exact. Then both complete, the FileNode carries H1
\* or H2, and for every hash (H0, H1 and H2 among them) the reference count is
\* the number of FileNodes that carry it.
C30_ConcurrentOverwrites ==
    (/\ reqs[1].op = "writeFile" /\ reqs[1].pc \in {"wf_write", "wf_get"}
     /\ reqs[2].op = "writeFile" /\ reqs[2].pc \in {"wf_write", "wf_get"}
     /\ reqs[1].src = reqs[2].src
     /\ reqs[1].hashString # reqs[2].hashString
     /\ \E n \in RowsAt(fs_nodes, "T1", reqs[1].src) :
           n.type = "file" /\ n.content_hash \notin {reqs[1].hashString, reqs[2].hashString}
     /\ Exact)
    ~> (/\ reqs[1].pc = "done"
        /\ reqs[2].pc = "done"
        /\ \E n \in RowsAt(fs_nodes, "T1", reqs[1].src) :
              n.type = "file" /\ n.content_hash \in {reqs[1].hashString, reqs[2].hashString}
        /\ Exact)

----------------------------------------------------------------------------
(* Order of the store calls, aborted requests, moves and the reclaimer *)

\* C31 Step order of a replacing write: a writeFile that has replaced the
\* hash of an existing file by another made its store calls in the order
\* incrementBlobRefCount(new), updateNode, decrementBlobRefCount(old), and
\* blob.delete(old) last and only after a decrement.
C31_ReplaceOrder ==
    (Ok("writeFile") /\ CountCalls(Last, "updateNode") = 1 /\ Last.oldHash # Last.hashString) =>
       /\ \E i \in 1..Len(Last.calls), j \in 1..Len(Last.calls), k \in 1..Len(Last.calls) :
             /\ i < j /\ j < k
             /\ Last.calls[i].fn = "incrementBlobRefCount" /\ Last.calls[i].hash = Last.hashString
             /\ Last.calls[j].fn = "updateNode"
             /\ Last.calls[k].fn = "decrementBlobRefCount" /\ Last.calls[k].hash = Last.oldHash
       /\ \A k \in 1..Len(Last.calls) :
             Last.calls[k].fn = "blob.delete" =>
                /\ k = Len(Last.calls)
                /\ Last.calls[k - 1].fn = "decrementBlobRefCount"

\* requests in a run in which requests may be cut off
MaxAbortOps == 3
\* most store calls a request makes before it is cut off
MaxCutCalls == 8

\* the request after its next k store calls, or fewer when it ends before
RECURSIVE RunFor(_, _)
RunFor(c, k) == IF k = 0 \/ c.f.pc = "done" THEN c ELSE RunFor(Step(c), k - 1)

\* A request, served alone, is cut off (the process dies, the caller cancels,
\* the next store call fails) after k store calls and before it has returned
CutOff(op, src, dst, content, k) ==
    /\ Quiet
    /\ nops < MaxAbortOps
    /\ "T1" \in tenants
    /\ nops' = nops + 1
    /\ LET c == RunFor(Begin([db |-> setTenant(DB, "T1"),
                              f |-> NewFrame("T1", op, src, dst, content)]), k)
       IN  /\ c.f.pc # "done"
           /\ Len(c.f.calls) = k
           /\ Respond([c EXCEPT !.f.pc = "done", !.f.result = "aborted"])

NextAbort ==
    \/ \E t \in {"T1"} : Register(t)
    \/ \E p \in RacePaths, b \in Buffers, op \in {"writeFile", "deleteFile"} :
          Call(MaxAbortOps, "T1", op, p, <<>>, b)
    \/ \E p \in RacePaths, q \in RacePaths : Call(MaxAbortOps, "T1", "copyFile", p, q, <<>>)
    \/ \E p \in RacePaths, b \in Buffers, op \in {"writeFile", "deleteFile"}, k \in 1..MaxCutCalls :
          CutOff(op, p, <<>>, b, k)
    \/ \E p \in RacePaths, q \in RacePaths, k \in 1..MaxCutCalls :
          CutOff("copyFile", p, q, <<>>, k)

SpecAbort == Init /\ [][NextAbort]_vars

\* C32 Blob before metadata: when a writeFile has just called createNode,
\* updateNode or incrementBlobRefCount (it was cut off there, or returned
\* there), the blob of its hash is in the blob store; and when the reference counts were exact and every
\* referenced blob present before a writeFile or deleteFile, then after it,
\* cut off after any of its store calls or complete, every hash a FileNode
\* carries has its blob.
C32_BlobBeforeMetadata ==
    [][/\ (/\ Serves("writeFile")
           /\ Len(reqs'[1].calls) > 0
           /\ reqs'[1].calls[Len(reqs'[1].calls)].fn
                 \in {"createNode", "updateNode", "incrementBlobRefCount"})
          => BlobFiles(blobStore', reqs'[1].hashString) # {}
       /\ (/\ Serves("writeFile") \/ Serves("deleteFile")
           /\ Exact
           /\ LiveBlobsPresent)
          => LiveBlobsPresent']_vars

\* C32 witness: a writeFile was cut off right after its createNode, before
\* incrementBlobRefCount.
C32_Witness ==
    /\ Last.op = "writeFile"
    /\ Last.result = "aborted"
    /\ Last.calls[Len(Last.calls)].fn = "createNode"
    /\ \E n \in FilesWith(fs_nodes, Last.hashString) : n.path = Last.src
    /\ RefCount(blobs, Last.hashString) = 0

\* C33 Abort safety of refcounts: in every state reached by writeFile,
\* copyFile and deleteFile requests of which any may have been cut off
\* between two of its store calls, every hash a FileNode carries has its
\* blob, and no reference count is lower than the number of FileNodes that
\* carry the hash.
C33_AbortSafety ==
    /\ LiveBlobsPresent
    /\ \A h \in KnownHashes : RefCount(blobs, h) >= Cardinality(FilesWith(fs_nodes, h))

\* C34 moveFile never destroys content: when src holds a FileNode, then for
\* every dst, dst = src included, after a moveFile(src, dst) that succeeds
\* there is a FileNode at dst with the hash src had, the reference count of
\* that hash is >= 1, and its blob holds the bytes it held before.
C34_MoveKeepsContent ==
    [][\A s \in RowsAt(fs_nodes, reqs'[1].tenant, reqs'[1].src) :
        (/\ Serves("moveFile")
         /\ s.type = "file"
         /\ reqs'[1].result = "ok")
        => /\ \E n \in RowsAt(fs_nodes', reqs'[1].tenant, reqs'[1].dst) :
                 n.type = "file" /\ n.content_hash = s.content_hash
           /\ RefCount(blobs', s.content_hash) >= 1
           /\ BlobFiles(blobStore', s.content_hash) # {}
           /\ BlobFiles(blobStore', s.content_hash) = BlobFiles(blobStore, s.content_hash)]_vars

\* C35 No undiscoverable blobs: after every request, failed ones included,
\* every object of the blob store has a BlobRecord; and a writeFile that
\* fails leaves the blob store exactly as it was.
C35_NoUndiscoverableBlobs ==
    [][/\ \A o \in blobStore' : \E b \in blobs' : b.content_hash = o.hash
       /\ (Serves("writeFile") /\ reqs'[1].result # "ok") => blobStore' = blobStore]_vars

----------------------------------------------------------------------------
(* Requests served while a reclaimer pass is between its two store calls *)

\* requests in a run beside the reclaimer (its passes are not counted)
MaxSweepOps == 4

\* A request served alone in slot 1, whatever the reclaimer in slot 2 is at
Meanwhile(op, src, content) ==
    /\ reqs[1].pc \in {"idle", "done"}
    /\ nops < MaxSweepOps
    /\ "T1" \in tenants
    /\ nops' = nops + 1
    /\ Respond(Served("T1", op, src, <<>>, content))

\* A reclaimer pass starts in slot 2: cleanup() up to getOrphanBlobs
Sweep ==
    /\ reqs[2].pc \in {"idle", "done"}
    /\ UNCHANGED nops
    /\ hist' = Mixed
    /\ Commit(Step(Begin([db |-> DB,
                          f |-> NewFrame(NoTenant, "cleanup", <<>>, <<>>, <<>>)])), 2)

NextSweep ==
    \/ \E t \in {"T1"} : Register(t)
    \/ \E p \in RacePaths, op \in {"writeFile", "deleteFile"} : Meanwhile(op, p, <<104, 105>>)
    \/ Sweep
    \/ \E r \in {2} : Resume(r)

SpecSweep == Init /\ [][NextSweep]_vars

\* C36 Reclaimer race is recoverable: when a FileNode carries H and the blob
\* of H is gone (a reclaimer pass read H as an orphan, a writeFile then
\* created the FileNode, and the pass deleted the blob), the next writeFile of
\* content with hash H finds blob.exists(H) false and writes the blob, and
\* afterwards the blob of H holds that content, so that readFile succeeds for
\* every FileNode that carries H.
C36_ReclaimerRace ==
    [][(/\ Serves("writeFile")
        /\ FilesWith(fs_nodes, reqs'[1].hashString) # {}
        /\ BlobFiles(blobStore, reqs'[1].hashString) = {})
       => /\ CountCalls(reqs'[1], "blob.write") = 1
          /\ BlobFiles(blobStore', reqs'[1].hashString)
                = {[hash |-> reqs'[1].hashString, content |-> reqs'[1].content]}
          /\ FilesWith(fs_nodes', reqs'[1].hashString) # {}]_vars

\* C36 witness: the pass in slot 2 had read H as an orphan and has finished;
\* two FileNodes carry H, counted twice, and the writeFile served last wrote
\* the blob although a FileNode with H existed.
C36_Witness ==
    /\ Ok("writeFile")
    /\ CountCalls(Last, "blob.write") = 1
    /\ reqs[2].op = "cleanup" /\ reqs[2].pc = "done"
    /\ \E i \in 1..Len(reqs[2].orphans) : reqs[2].orphans[i] = Last.hashString
    /\ Cardinality(FilesWith(fs_nodes, Last.hashString)) = 2
    /\ RefCount(blobs, Last.hashString) = 2
    /\ BlobFiles(blobStore, Last.hashString) # {}

\* C37 BlobRecord lifecycle: after a reclaimer pass that removed the blobs of
\* the hashes it read (reference count 0), the BlobRecords of those hashes are
\* destroyed, and a second pass run immediately afterwards, no operation in
\* between, finds no orphans and returns 0.
C37_RecordLifecycle ==
    [][(/\ Serves("cleanup")
        /\ Ok("cleanup")
        /\ Last.ret.value >= 1)
       => /\ \A i \in 1..Len(Last.orphans) :
                \A b \in blobs : b.content_hash # Last.orphans[i]
          /\ reqs'[1].result = "ok"
          /\ reqs'[1].ret.value = 0
          /\ Len(reqs'[1].orphans) = 0]_vars

\* C40 A failed move leaves the source intact: when moveFile(src, dst) is
\* served and src holds no file, or dst holds no node and the parent of dst
\* does not exist, the call fails, the nodes (the one at src among them) and
\* every BlobRecord are as before the call, and no store call of
\* deleteFile(src) (deleteNode, decrementBlobRefCount, blob.delete) is made.
C40_FailedMove ==
    [][(/\ Serves("moveFile")
        /\ \/ \A n \in RowsAt(fs_nodes, reqs'[1].tenant, reqs'[1].src) : n.type # "file"
           \/ /\ RowsAt(fs_nodes, reqs'[1].tenant, reqs'[1].dst) = {}
              /\ RowsAt(fs_nodes, reqs'[1].tenant, ParentPath(reqs'[1].dst)) = {})
       => /\ reqs'[1].result \in {"FileNotFoundError", "DirectoryNotFoundError"}
          /\ fs_nodes' = fs_nodes
          /\ blobs' = blobs
          /\ CountCalls(reqs'[1], "deleteNode") = 0
          /\ CountCalls(reqs'[1], "decrementBlobRefCount") = 0
          /\ CountCalls(reqs'[1], "blob.delete") = 0]_vars

\* C40 witness: a moveFile whose source holds a file has failed on the missing
\* parent of its destination, and the file is still at the source.
C40_Witness ==
    /\ Last.op = "moveFile" /\ Last.pc = "done"
    /\ Last.result = "DirectoryNotFoundError"
    /\ \E n \in RowsAt(fs_nodes, Last.tenant, Last.src) :
          n.type = "file" /\ RefCount(blobs, n.content_hash) = 1
    /\ CountCalls(Last, "blob.read") = 1

\* what a (tenant, path) holds: nothing, a directory or a file
Kind(nodes, t, p) ==
    LET rows == RowsAt(nodes, t, p)
    IN  IF rows = {} THEN "absent" ELSE (CHOOSE n \in rows : TRUE).type

\* the request served by this step writes a file at p of tenant t
WritesAt(t, p) ==
    /\ reqs'[1].tenant = t
    /\ \/ reqs'[1].op = "writeFile" /\ reqs'[1].src = p
       \/ reqs'[1].op \in {"copyFile", "moveFile"} /\ reqs'[1].dst = p

----------------------------------------------------------------------------
(* Reclaimer passes repeated forever over more orphan rows than one batch *)

\* requests served beside the repeated passes
MaxStarveOps == 3

\* the content of the i-th file of a series of files: two bytes
ChurnContent(i) == <<i \div 256, i % 256>>

\* OrphanBatchLimit files of different contents have been written and deleted
\* again, one after the other: each writeFile adds the BlobRecord of its hash
\* (incrementBlobRefCount), each deleteFile takes it to reference count 0
\* (decrementBlobRefCount) and deletes the node and the blob object.
Churn ==
    /\ Quiet
    /\ "T1" \in tenants
    /\ blobs = {}
    /\ now = 0
    /\ blobs' = {[content_hash |-> Sha256(ChurnContent(i)), reference_count |-> 0,
                  size |-> 0, created_at |-> now, last_accessed_at |-> now] :
                    i \in 1..OrphanBatchLimit}
    /\ currentTenantId' = "T1"
    /\ hist' = Mixed
    /\ UNCHANGED <<tenants, fs_nodes, blobStore, now, reqs, nops>>

NextStarve ==
    \/ \E t \in {"T1"} : Register(t)
    \/ Churn
    \/ Tick
    \/ \E p \in ReclaimPaths, op \in {"writeFile", "deleteFile"} :
          Call(MaxStarveOps, "T1", op, p, <<>>, <<104, 105>>)
    \/ Sweep
    \/ \E r \in {2} : Resume(r)

\* reclaimer passes are started again and again, and a pass that is suspended
\* at an await is resumed by the event loop
SpecStarve ==
    /\ Init /\ [][NextStarve]_vars
    /\ []<><<Sweep>>_vars
    /\ WF_vars(\E r \in {2} : Resume(r))

\* C38 No reclaimer starvation: with reclaimer passes repeated forever, a blob
\* object whose BlobRecord has reference count 0 (here the blob of the content
\* the requests write) is eventually deleted from the blob store, unless its
\* reference count leaves 0; also when more orphan records exist than
\* getOrphanBlobs returns in one batch.
C38_NoStarvation ==
    (/\ BlobFiles(blobStore, Sha256(<<104, 105>>)) # {}
     /\ Sha256(<<104, 105>>) \in OrphanSet(blobs))
    ~> (\/ BlobFiles(blobStore, Sha256(<<104, 105>>)) = {}
        \/ Sha256(<<104, 105>>) \notin OrphanSet(blobs))

====
